---- MODULE Spec2Model ----
(***************************************************************************)
(* bioimageio.spec: format version resolution (utils.py), the warning      *)
(* wrapper (_internal/_warn.py), the two-pass loading of a resource        *)
(* description (utils.load_description), the conversion steps of the       *)
(* revisions, the ambient ValidationContext (shared/validation.py) and the *)
(* package collectors (utils.prepare_to_package,                           *)
(* RawNodePackageTransformer), the node transformers                       *)
(* (shared/node_transformer.py) and the IO classes (shared/io.py).         *)
(*                                                                         *)
(* A version string "a.b.c" is the sequence of its dot-separated           *)
(* components <<a, b, c>>; str.count(".") is Len - 1, and                  *)
(* s[:s.rfind(".")] drops the last component.  None is the empty sequence  *)
(* and a present value x is <<x>>.                                         *)
(*                                                                         *)
(* Spec is load_description and the calls of single functions, SpecCtx     *)
(* the `with ValidationContext` scopes of two tasks, SpecPkg the naming    *)
(* loops of the package collectors, SpecFn the calls of the functions that *)
(* work on trees and mappings.                                             *)
(***************************************************************************)
EXTENDS Integers, Sequences, FiniteSets, TLC

\* ---------------------------------------------------------------- bounds
MaxMajor == 1
MaxMinor == 6
MaxPatch == 2

\* ------------------------------------------------------ program constants
INFO == 20
WARNING == 30
ALERT == 35
ERROR == 50
\* range(7) of get_supported_format_versions: model 0.3.0 .. 0.3.6
Model03Patches == 7

Severity == {INFO, WARNING, ALERT}
WarningLevel == Severity \cup {ERROR}

None == <<>>
Some(x) == <<x>>

\* SEVERITY_TO_WARNING
SEVERITY_TO_WARNING(s) ==
    IF s = INFO THEN "info" ELSE IF s = WARNING THEN "warning" ELSE "alert"

\* get_args(WarningType)
WarningType == {"info", "warning", "alert"}

\* ------------------------------------------------------- version strings
LATEST == [kind |-> "latest", parts |-> <<>>]
DISCOVER == [kind |-> "discover", parts |-> <<>>]
Str(parts) == [kind |-> "str", parts |-> parts]
NoValue == [kind |-> "none", parts |-> <<>>]

\* isinstance(v, str)
IsStr(v) == v.kind \in {"str", "latest", "discover"}

\* str.count(".")
CountDots(v) == IF v.kind = "str" THEN Len(v.parts) - 1 ELSE 0

\* s[: s.rfind(".")]
UpToLastDot(v) == Str(SubSeq(v.parts, 1, Len(v.parts) - 1))

\* ------------------------------------------------ registered rd classes
\* The revisions _iterate_over_rd_classes yields for the types whose
\* modules are listed in the sources: generic v0_2 and v0_3, model v0_4
\* and v0_5.  The last class of a type is the one exported as latest.
ImplementedPatch(typ, ma, mi) ==
    IF <<typ, ma, mi>> = <<"generic", 0, 2>> THEN 1
    ELSE IF <<typ, ma, mi>> = <<"model", 0, 4>> THEN 1
    ELSE 0

RdClass(typ, ma, mi) ==
    [typ |-> typ, ma |-> ma, mi |-> mi, pa |-> ImplementedPatch(typ, ma, mi)]

iterate_over_rd_classes ==
    << RdClass("generic", 0, 2), RdClass("generic", 0, 3),
       RdClass("model", 0, 4), RdClass("model", 0, 5) >>

RdClasses == { iterate_over_rd_classes[i] : i \in DOMAIN iterate_over_rd_classes }

\* rd_class.implemented_format_version
implemented_format_version(c) == Str(<<c.ma, c.mi, c.pa>>)

\* rd_class.model_fields["type"].default: Generic declares `type` with no
\* default, the specialised classes default to their type name.
TypeDefault(c) == IF c.typ = "generic" THEN "PydanticUndefined" ELSE c.typ

\* The class a type module (or one of its version modules) exports under
\* the capitalised type name.
LatestClass(typ) ==
    CHOOSE c \in RdClasses :
        /\ c.typ = typ
        /\ \A d \in RdClasses : d.typ = typ => <<d.ma, d.mi>> = <<c.ma, c.mi>>
                                             \/ d.ma < c.ma
                                             \/ (d.ma = c.ma /\ d.mi < c.mi)

\* attributes of the package bioimageio.spec that are type modules
TypeModules == {"generic", "model"}
\* other attributes of the package (a module without rd classes)
OtherAttributes == {"json"}

\* hasattr(bioimageio.spec, typ)
HasAttr(typ) == typ \in TypeModules \cup OtherAttributes

\* hasattr(type_module, "v{ma}_{mi}")
HasVersionModule(typ, mm) ==
    /\ Len(mm.parts) = 2
    /\ \E c \in RdClasses : c.typ = typ /\ <<c.ma, c.mi>> = mm.parts

VersionModuleClass(typ, mm) ==
    CHOOSE c \in RdClasses : c.typ = typ /\ <<c.ma, c.mi>> = mm.parts

\* get_supported_format_versions()[typ], the empty set for a missing key.
\* The key of a class is its `type` default; model 0.3.0 .. 0.3.6 are added
\* as convertible.
get_supported_format_versions(typ) ==
    UNION { { Str(<<c.ma, c.mi, p>>) : p \in 0..c.pa } :
            c \in {d \in RdClasses : TypeDefault(d) = typ} }
    \cup (IF typ = "model"
          THEN { Str(<<0, 3, i>>) : i \in 0..(Model03Patches - 1) }
          ELSE {})

\* a `type` value that is not a str (missing, None, a number)
NotAStr == "<not a str>"

Raised(e) == [exc |-> Some(e), typ |-> NotAStr, fv |-> NoValue, use_fv |-> NoValue]

\* no substitution: the declared version is used as it is
DeclaredFv(typ, fv) == fv

\* The version check_type_and_format_version substitutes when fv is not
\* one of the supported versions of a specialised type.
SpecializedUseFv(typ, fv) ==
    IF CountDots(fv) = 2 /\ HasVersionModule(typ, UpToLastDot(fv))
    THEN implemented_format_version(VersionModuleClass(typ, UpToLastDot(fv)))
    ELSE implemented_format_version(LatestClass(typ))

\* check_type_and_format_version(data) for data["type"] = typ and
\* data["format_version"] = fv
check_type_and_format_version(typ, fv) ==
    IF typ = NotAStr THEN Raised("TypeError")
    ELSE IF ~IsStr(fv) THEN Raised("TypeError")
    ELSE IF fv \in get_supported_format_versions(typ)
    THEN [exc |-> None, typ |-> typ, fv |-> fv, use_fv |-> fv]
    ELSE IF HasAttr(typ)
    THEN IF typ \in TypeModules
         THEN [exc |-> None, typ |-> typ, fv |-> fv,
               use_fv |-> SpecializedUseFv(typ, fv)]
         ELSE Raised("AttributeError")
    ELSE [exc |-> None, typ |-> typ, fv |-> fv,
          use_fv |-> implemented_format_version(LatestClass("generic"))]

\* the lookup key without the truncation of the patch
LookupKeyWithPatch(format_version) ==
    IF format_version # LATEST /\ CountDots(format_version) = 0
    THEN Str(format_version.parts \o <<0>>)
    ELSE format_version

\* the first lines of get_rd_class: the lookup key of a format version
LookupKey(format_version) ==
    IF format_version # LATEST /\ CountDots(format_version) = 0
    THEN Str(format_version.parts \o <<0>>)
    ELSE IF CountDots(format_version) = 2
    THEN UpToLastDot(format_version)
    ELSE format_version

\* rd_classes[typ] of get_rd_class: the classes registered under typ, each
\* under the key "{ma}.{mi}"
ClassKey(c) == Str(<<c.ma, c.mi>>)
RegisteredType(c) == IF TypeDefault(c) = "PydanticUndefined" THEN "generic" ELSE c.typ
RegisteredTypes == { RegisteredType(c) : c \in RdClasses }
PerFv(typ) ==
    LET t == IF typ \in RegisteredTypes THEN typ ELSE "generic"
    IN  { c \in RdClasses : RegisteredType(c) = t }

\* get_rd_class(type_, format_version): the class, or the exception raised
get_rd_class(type_, format_version, asserts) ==
    LET dup == \E i, j \in DOMAIN iterate_over_rd_classes :
                   /\ i < j
                   /\ RegisteredType(iterate_over_rd_classes[i])
                        = RegisteredType(iterate_over_rd_classes[j])
                   /\ ClassKey(iterate_over_rd_classes[i])
                        = ClassKey(iterate_over_rd_classes[j])
        hits == { c \in PerFv(type_) : ClassKey(c) = LookupKey(format_version) }
    IN  IF asserts /\ dup THEN [exc |-> Some("AssertionError"), cls |-> None]
        ELSE IF hits = {} THEN [exc |-> Some("NotImplementedError"), cls |-> None]
        ELSE [exc |-> None,
              cls |-> Some(iterate_over_rd_classes[
                  CHOOSE i \in DOMAIN iterate_over_rd_classes :
                      /\ iterate_over_rd_classes[i] \in hits
                      /\ \A j \in DOMAIN iterate_over_rd_classes :
                             iterate_over_rd_classes[j] \in hits => j <= i])]

\* ------------------------------------------------------ python values
\* A value that is None or a list: `x is None` is x.isNone, `not x` is Falsy(x).
PyNone == [isNone |-> TRUE, items |-> <<>>]
PyList(items) == [isNone |-> FALSE, items |-> items]
IsNone(x) == x.isNone
Falsy(x) == x.isNone \/ x.items = <<>>

\* ---------------------------------------------------- warning wrapper
\* A validator function applied to a value: it returns ret, or raises exc.
Returns(ret) == [exc |-> None, ret |-> ret]
Raises(e) == [exc |-> Some(e), ret |-> "-"]

\* (info.context or {}).get(WARNING_LEVEL_CONTEXT_KEY, ERROR)
ContextLevel(context) == IF context = None THEN ERROR ELSE context[1]

\* as_warning with the comparison `severity > level`
as_warning_strictly_above(outcome, severity, value, context) ==
    IF outcome.exc \in {Some("AssertionError"), Some("ValueError")}
    THEN IF severity > ContextLevel(context)
         THEN [kind |-> "raise_warning", type |-> SEVERITY_TO_WARNING(severity),
               value |-> "-"]
         ELSE [kind |-> "return", type |-> "-", value |-> value]
    ELSE IF outcome.exc # None
    THEN [kind |-> "propagate", type |-> outcome.exc[1], value |-> "-"]
    ELSE [kind |-> "return", type |-> "-", value |-> value]

\* wrapper(value, info) of as_warning(func, severity=severity), where
\* outcome is what func does on value
as_warning(outcome, severity, value, context) ==
    IF outcome.exc \in {Some("AssertionError"), Some("ValueError")}
    THEN IF severity >= ContextLevel(context)
         THEN [kind |-> "raise_warning", type |-> SEVERITY_TO_WARNING(severity),
               value |-> "-"]
         ELSE [kind |-> "return", type |-> "-", value |-> value]
    ELSE IF outcome.exc # None
    THEN [kind |-> "propagate", type |-> outcome.exc[1], value |-> "-"]
    ELSE [kind |-> "return", type |-> "-", value |-> value]

\* --------------------------------------------------------- validation
\* The content of a raw document, by what the field constraints of
\* GenericBaseNoSource make of it.  `name` has a hard constraint only;
\* `license` has a hard constraint behind a warn(...) check of severity
\* WARNING: "soft" fails the warn check alone (a deprecated license),
\* "hard" fails both (an unknown one).  malformed: a legacy structure the
\* conversion of a model revision cannot interpret.
FieldOrder == <<"name", "license">>
FieldStates(f) == IF f = "name" THEN {"ok", "hard"} ELSE {"ok", "soft", "hard"}
HasWarnCheck(f) == f = "license"
WarnSeverity(f) == WARNING
HardErrorType(f) == IF f = "name" THEN "string_too_long" ELSE "literal_error"

\* the validator Annotated[..., warn(LicenseId, WARNING, ...)] hands to
\* BeforeWarner: TypeAdapter(typ).validate_python on the raw value
WarnCheckOutcome(st) == IF st = "ok" THEN Returns("validated") ELSE Raises("ValueError")

\* The errors pydantic collects for one field: the BeforeWarner runs before
\* the field's own schema, and an error it raises ends the field's validation.
FieldErrors(f, st, level) ==
    LET w == as_warning(WarnCheckOutcome(st), WarnSeverity(f), st, Some(level))
    IN  IF HasWarnCheck(f) /\ w.kind = "raise_warning"
        THEN << [loc |-> <<f>>, type |-> w.type] >>
        ELSE IF st = "hard"
        THEN << [loc |-> <<f>>, type |-> HardErrorType(f)] >>
        ELSE << >>

RECURSIVE AllFieldErrors(_, _, _)
AllFieldErrors(data, level, i) ==
    IF i > Len(FieldOrder) THEN << >>
    ELSE FieldErrors(FieldOrder[i], data[FieldOrder[i]], level)
         \o AllFieldErrors(data, level, i + 1)

\* cls.convert_from_older_format(data) as _get_context_and_update_data
\* calls it, with one argument: the step of the generic revisions requires
\* a second one (raise_unconvertable), so the call raises TypeError.  A
\* model revision raises on malformed legacy data.
ModelConversion(data) == IF data.malformed THEN Some("ConversionError") ELSE None

ConvertFromOlderFormat(cls, data) ==
    IF cls.typ = "generic" THEN Some("TypeError") ELSE ModelConversion(data)

\* What the step of a model revision leaves in the data it is given: data
\* of an older patch of the revision is raised to the implemented version.
ModelMigration(cls, data) ==
    IF /\ data.format_version.kind = "str"
       /\ Len(data.format_version.parts) = 3
       /\ data.format_version.parts[1] = cls.ma
       /\ data.format_version.parts[2] = cls.mi
       /\ data.format_version.parts[3] < cls.pa
    THEN [data EXCEPT !.format_version = implemented_format_version(cls)]
    ELSE data

\* the dict after cls.convert_from_older_format(data): the step works on
\* the dict it is given
ConvertedData(cls, data) ==
    IF ConvertFromOlderFormat(cls, data) # None THEN data
    ELSE ModelMigration(cls, data)

\* context.original_format as _get_context_and_update_data sets it from the
\* data it is given (lines 209-212); None when the version is not "a.b.c"
OriginalFormat(data) ==
    IF data.format_version.kind = "str" /\ CountDots(data.format_version) = 2
    THEN Some(data.format_version.parts)
    ELSE None

\* model_validate with the fields validated before the conversion is tried
model_validate_fields_first(cls, data, level) ==
    LET conv == ConvertFromOlderFormat(cls, data)
        errs == AllFieldErrors(data, level, 1)
        of == OriginalFormat(data)
    IN  IF errs # << >>
        THEN [exc |-> Some("ValidationError"), errors |-> errs, rd |-> None,
              original_format |-> of, data |-> data]
        ELSE IF conv # None
        THEN [exc |-> conv, errors |-> << >>, rd |-> None,
              original_format |-> of, data |-> data]
        ELSE [exc |-> None, errors |-> << >>,
              rd |-> Some([type |-> data.type,
                           format_version |-> data.format_version]),
              original_format |-> of, data |-> ConvertedData(cls, data)]

\* rd_class.model_validate(data, context): the exception raised (with the
\* errors of a pydantic.ValidationError) or the description
model_validate(cls, data, level) ==
    LET conv == ConvertFromOlderFormat(cls, data)
        errs == AllFieldErrors(data, level, 1)
        after == ConvertedData(cls, data)
        of == OriginalFormat(data)
    IN  IF conv # None
        THEN [exc |-> conv, errors |-> << >>, rd |-> None,
              original_format |-> of, data |-> after]
        ELSE IF errs # << >>
        THEN [exc |-> Some("ValidationError"), errors |-> errs, rd |-> None,
              original_format |-> of, data |-> after]
        ELSE [exc |-> None, errors |-> << >>,
              rd |-> Some([type |-> after.type,
                           format_version |-> after.format_version]),
              original_format |-> of, data |-> after]

\* _load_descr_impl(rd_class, resource_description, context)
load_descr_impl(cls, data, level) ==
    LET v == model_validate(cls, data, level)
        IsWarning(e) == e.type \in WarningType
        IsError(e) == e.type \notin WarningType
    IN  IF v.exc = None
        THEN [level |-> level, rd |-> v.rd, errors |-> PyList(<< >>),
              tb |-> PyNone, warnings |-> PyList(<< >>),
              original_format |-> v.original_format, data |-> v.data]
        ELSE IF v.exc = Some("ValidationError")
        THEN [level |-> level, rd |-> None,
              errors |-> PyList(SelectSeq(v.errors, IsError)),
              tb |-> PyNone,
              warnings |-> PyList(SelectSeq(v.errors, IsWarning)),
              original_format |-> v.original_format, data |-> v.data]
        ELSE [level |-> level, rd |-> None,
              errors |-> PyList(<< [loc |-> << >>, type |-> v.exc[1]] >>),
              tb |-> PyList(<< "traceback" >>),
              warnings |-> PyList(<< >>),
              original_format |-> v.original_format, data |-> v.data]

\* ------------------------------------------------------ migration steps
\* the key "format_version" is missing from the raw data
Missing == [kind |-> "missing", parts |-> <<>>]

\* data.get("format_version", default)
GetFormatVersion(data, default) ==
    IF data.format_version = Missing THEN default ELSE data.format_version

\* tuple(map(int, fv.split(".")[:2]))
MajorMinor(fv) == << fv.parts[1], fv.parts[2] >>

\* Python's order of tuples of two ints
TupleLess(a, b) == a[1] < b[1] \/ (a[1] = b[1] /\ a[2] < b[2])

\* The record of a rewrite: the MAJOR.MINOR the data declared when the rewrite
\* began and the revision the rewrite leaves it at.
Rewrite(from, to) == [from |-> from, to |-> to]

\* A raw generic document as the conversion steps see it.  attachments is
\* "absent", "mapping" (the legacy {"files": [...]}) or "tuple";
\* download_url tells whether the key is present; steps lists the rewrites
\* applied to the data, in order.
RawDoc(fv, att, url) ==
    [format_version |-> fv, attachments |-> att, download_url |-> url,
     steps |-> << >>]

\* v0_2.GenericBaseNoSource.convert_from_older_format: a no-op on data at or
\* above 0.2, data below it is raised to 0.2.0
v0_2_convert_from_older_format(data) ==
    LET fv == GetFormatVersion(data, Str(<<0, 2, 0>>))
    IN  IF TupleLess(MajorMinor(fv), <<0, 2>>)
        THEN [data EXCEPT !.format_version = Str(<<0, 2, 0>>),
                          !.steps = Append(@, Rewrite(MajorMinor(fv), <<0, 2>>))]
        ELSE data

\* GenericBaseNoSource._convert_attachments
convert_attachments(data) ==
    [data EXCEPT !.attachments = IF @ = "mapping" THEN "tuple" ELSE @]

\* tuple(map(int, fv.split(".")[:2])) > (0, 3)
IsFutureGeneric03(fv) == TupleLess(<<0, 3>>, MajorMinor(fv))

\* generic.v0_3.GenericBaseNoSource.convert_from_older_format(data, ...)
v0_3_convert_from_older_format(data) ==
    LET fv == GetFormatVersion(data, Str(<<0, 2, 0>>))
    IN  IF fv.kind # "str" \/ CountDots(fv) # 2 THEN data
        ELSE IF IsFutureGeneric03(fv) THEN data
        ELSE LET d1 == v0_2_convert_from_older_format(data)
                 d2 == convert_attachments(d1)
                 d3 == [d2 EXCEPT !.download_url = FALSE]
                 at == MajorMinor(GetFormatVersion(d3, Str(<<0, 2, 0>>)))
             IN  [d3 EXCEPT !.format_version = Str(<<0, 3, 0>>),
                            !.steps = Append(@, Rewrite(at, <<0, 3>>))]

\* A raw model document as model.v0_4.converters sees it.  legacy: the keys
\* "language" and "framework" are present; source: the keys "source" and
\* "kwargs" are present; pytorch is "absent", "entry" (a pytorch_state_dict
\* weights entry) or "entry+architecture"; config is "absent", "empty" ({}),
\* "future_only" ({"future": {}}), "future_and_other" or "other".
RawModel(fv, legacy, source, pytorch, config) ==
    [format_version |-> fv, legacy |-> legacy, source |-> source,
     pytorch |-> pytorch, config |-> config, steps |-> << >>]

\* model.v0_3.converters.maybe_convert: data below 0.3 is raised to 0.3.0
model_v0_3_maybe_convert(data) ==
    LET fv == GetFormatVersion(data, Str(<<0, 1, 0>>))
    IN  IF TupleLess(MajorMinor(fv), <<0, 3>>)
        THEN [data EXCEPT !.format_version = Str(<<0, 3, 0>>),
                          !.steps = Append(@, Rewrite(MajorMinor(fv), <<0, 3>>))]
        ELSE data

\* model.v0_4.converters.convert_model_from_v0_3
convert_model_from_v0_3(data) ==
    LET d1 == model_v0_3_maybe_convert(data)
        at == MajorMinor(GetFormatVersion(d1, Str(<<0, 1, 0>>)))
    IN  [d1 EXCEPT !.legacy = FALSE,
                   !.source = FALSE,
                   !.pytorch = IF @ = "absent" THEN @ ELSE "entry+architecture",
                   !.format_version = Str(<<0, 4, 0>>),
                   !.steps = Append(@, Rewrite(at, <<0, 4>>))]

\* the two clean-ups of "config" at the end of maybe_convert
CleanConfig(config) ==
    LET c1 == IF config = "future_only" THEN "empty"
              ELSE IF config = "future_and_other" THEN "other"
              ELSE config
    IN  IF c1 = "empty" THEN "absent" ELSE c1

\* model.v0_4.converters.maybe_convert(data): the data returned, or the
\* exception raised by the unpacking of the version
model_v0_4_maybe_convert(data) ==
    LET fv == GetFormatVersion(data, Str(<<0, 1, 0>>))
    IN  IF fv.kind # "str" THEN [exc |-> Some("AttributeError"), data |-> data]
        ELSE IF CountDots(fv) # 2 THEN [exc |-> Some("ValueError"), data |-> data]
        ELSE LET d1 == IF fv.parts[1] = 0 /\ fv.parts[2] < 4
                       THEN convert_model_from_v0_3(data) ELSE data
             IN  [exc |-> None, data |-> [d1 EXCEPT !.config = CleanConfig(@)]]

\* the mapping the caller passed to maybe_convert, after the call: data below
\* 0.4 is converted on a deep copy, the clean-ups of "config" work on the
\* mapping that was passed in
model_v0_4_caller_data(data) ==
    LET fv == GetFormatVersion(data, Str(<<0, 1, 0>>))
    IN  IF fv.kind # "str" \/ CountDots(fv) # 2 THEN data
        ELSE IF fv.parts[1] = 0 /\ fv.parts[2] < 4 THEN data
        ELSE [data EXCEPT !.config = CleanConfig(@)]

\* The IO classes of the model revisions, oldest first; the preceding class
\* of the oldest is None (0 here).
NumIOClasses == 3
IOClasses == 1..NumIOClasses
preceding_io_class(cls) == cls - 1

\* cls.converters.maybe_convert_model(data): the converter of revision cls
\* raises data of an older revision to cls
converters_maybe_convert_model(cls, data) ==
    IF data.rev < cls
    THEN [rev |-> cls, steps |-> Append(data.steps, Rewrite(data.rev, cls))]
    ELSE data

\* the chain with a class's own converter run before the preceding class's
RECURSIVE maybe_convert_model_own_first(_, _)
maybe_convert_model_own_first(cls, data) ==
    LET d1 == converters_maybe_convert_model(cls, data)
    IN  IF preceding_io_class(cls) # 0
        THEN maybe_convert_model_own_first(preceding_io_class(cls), d1)
        ELSE d1

\* IO_Base.maybe_convert_model(data) of the class cls
RECURSIVE maybe_convert_model(_, _)
maybe_convert_model(cls, data) ==
    LET d1 == IF preceding_io_class(cls) # 0
              THEN maybe_convert_model(preceding_io_class(cls), data)
              ELSE data
    IN  converters_maybe_convert_model(cls, d1)

\* a data version: data.get("format_version"), a string or not, that splits
\* into numbers or not, of the revision rev
DataVersion(is_str, valid, rev) == [is_str |-> is_str, valid |-> valid, rev |-> rev]

\* IO_Base.get_matching_io_class(data_version, action_descr) of the class cls
get_matching_io_class(cls, data_version) ==
    IF ~data_version.is_str THEN [exc |-> Some("TypeError"), cls |-> None]
    ELSE IF ~data_version.valid
    THEN [exc |-> Some("ValidationError"), cls |-> None]
    ELSE IF data_version.rev > cls THEN [exc |-> Some("ValueError"), cls |-> None]
    ELSE IF data_version.rev = cls THEN [exc |-> None, cls |-> Some(cls)]
    ELSE IF preceding_io_class(cls) = 0
    THEN [exc |-> Some("NotImplementedError"), cls |-> None]
    ELSE [exc |-> None, cls |-> Some(preceding_io_class(cls))]

\* -------------------------------------------------- validation context
\* The threads or tasks that validate, each with its own Context (the
\* mapping of a ContextVar to its value), and the ValidationContext objects
\* they enter.  An object may be used by several tasks.
MaxDepth == 3
MaxTokens == 4
Tasks == {"t1", "t2"}
ContextObjects == {"A", "B"}

\* validation_context_var has no value in the Context: get() returns the
\* default, and a token taken now holds Token.MISSING
Unset == "unset"
DefaultContext == "default"

\* validation_context_var.get() in a Context where the variable holds v
Get(v) == IF v = Unset THEN DefaultContext ELSE v

\* the Token of validation_context_var.set(...): the Context it was made
\* in and the value the variable held before
Token(id, task, old) == [id |-> id, ctx |-> task, old |-> old]

\* validation_context_var.reset(token) in the Context of `task`: the
\* exception raised, or the value restored
ContextVarReset(token, task, used) ==
    IF token.id \in used THEN [exc |-> Some("RuntimeError"), restored |-> None]
    ELSE IF token.ctx # task THEN [exc |-> Some("ValueError"), restored |-> None]
    ELSE [exc |-> None, restored |-> Some(token.old)]

\* --------------------------------------------------- package collector
\* A file name "base<tags>.ext" with one extension: tags are the suffixes
\* appended to the part before the dot, each a separator and a number
\* ("weights_2.onnx" has the tag <<"_", 2>>, "weights-0.onnx" <<"-", 0>>).
FileName(base, tags) == [base |-> base, tags |-> tags, ext |-> "onnx"]

MaxSources == 10
MaxLocs == 11
\* the first sources met may be files that carry a tag in their own name
MaxTagged == 2

\* A source: a path or URL (told apart by id) and the name of its file
Source(id, file) == [id |-> id, file |-> file]

\* _extract_file_name(src)
extract_file_name(src) == src.file

EmptyMap == [n \in {} |-> 0]

\* d[key] = value on a dict
DictSet(d, key, value) ==
    [n \in DOMAIN d \cup {key} |-> IF n = key THEN value ELSE d[n]]

\* range(2, 10) of the naming loop of prepare_to_package
FirstAlternative == 2
LastAlternative == 9

\* ".".join([f"{fn}_{i}", *ext])
alternative_file_name(file_name, i) ==
    [file_name EXCEPT !.tags = Append(@, <<"_", i>>)]

\* the naming loop that keeps the file name whatever the map holds
prepare_file_name_unchecked(sources, src) ==
    [exc |-> None, name |-> Some(extract_file_name(src))]

\* the naming loop taking an alternative name only when nothing is filed
\* under it
prepare_file_name_free_only(sources, src) ==
    LET file_name == extract_file_name(src)
        alts == { i \in FirstAlternative..LastAlternative :
                      alternative_file_name(file_name, i) \notin DOMAIN sources }
    IN  IF file_name \in DOMAIN sources /\ sources[file_name] # src
        THEN IF alts = {}
             THEN [exc |-> Some("RuntimeError"), name |-> None]
             ELSE [exc |-> None,
                   name |-> Some(alternative_file_name(
                                file_name,
                                CHOOSE i \in alts : \A j \in alts : i <= j))]
        ELSE [exc |-> None, name |-> Some(file_name)]

\* prepare_to_package, lines 323-332: the name under which src is filed, or
\* RuntimeError
prepare_file_name(sources, src) ==
    LET file_name == extract_file_name(src)
        Free(n) == n \notin DOMAIN sources \/ sources[n] = src
        alts == { i \in FirstAlternative..LastAlternative :
                      Free(alternative_file_name(file_name, i)) }
    IN  IF file_name \in DOMAIN sources /\ sources[file_name] # src
        THEN IF alts = {}
             THEN [exc |-> Some("RuntimeError"), name |-> None]
             ELSE [exc |-> None,
                   name |-> Some(alternative_file_name(
                                file_name,
                                CHOOSE i \in alts : \A j \in alts : i <= j))]
        ELSE [exc |-> None, name |-> Some(file_name)]

\* range(100000) of RawNodePackageTransformer._transform_resource
MaxTries == 100000

\* f"{folder_in_package}{stem}-{i}{suffix}", for a resource at the root
conflict_free_name(name_from, i) ==
    [name_from EXCEPT !.tags = Append(@, <<"-", i>>)]

\* the loop of _transform_resource (lines 240-247) from its i-th round on
RECURSIVE transform_resource_name(_, _, _, _, _)
transform_resource_name(resources, resource, name_from, name, i) ==
    IF i = MaxTries THEN [exc |-> Some("ValueError"), name |-> None]
    ELSE IF name \in DOMAIN resources /\ resources[name] # resource
    THEN transform_resource_name(resources, resource, name_from,
                                 conflict_free_name(name_from, i), i + 1)
    ELSE [exc |-> None, name |-> Some(name)]

\* ------------------------------------------- description trees, packaging
\* A description is a tree of field values.  A Node has fields, each tagged
\* or not as included in the package (its description starts with
\* IN_PACKAGE_MESSAGE); a FrozenDictNode is a Node with frozen = TRUE.  Fields
\* are named by their position, so a location is a sequence of numbers.
MaxFields == 2
MaxItems == 2

\* a relative path and a URL whose files have the same name
RelativeFilePath ==
    [kind |-> "RelativeFilePath",
     path |-> [id |-> 1, file |-> FileName("w", << >>), root |-> "relative"]]
AnyUrl ==
    [kind |-> "AnyUrl",
     path |-> [id |-> 2, file |-> FileName("w", << >>), root |-> "url"]]
NoneValue == [kind |-> "None"]
StrValue == [kind |-> "str"]

\* RelativeFilePath.absolute: the path joined to the root
absolute(field_value) == [field_value.path EXCEPT !.root = "absolute"]

Field(tagged, value) == [tagged |-> tagged, value |-> value]
NodeValue(frozen, fields) == [kind |-> "Node", frozen |-> frozen, fields |-> fields]
TupleValue(items) == [kind |-> "tuple", items |-> items]

\* a plain file name in the description returned by prepare_to_package
FileNameValue(name) == [kind |-> "file_name", name |-> name]

IsNode(v) == v.kind = "Node"
\* the test that takes no node for a FrozenDictNode
NeverFrozen(v) == FALSE
\* isinstance(field_value, FrozenDictNode)
IsFrozenDictNode(v) == v.kind = "Node" /\ v.frozen

\* _fill_resource_package_content(package_content, node, node_loc): the
\* package content after the call, as the sequence of its (loc, src) items
\* in insertion order, or the exception raised
RECURSIVE fill_resource_package_content(_, _, _)
RECURSIVE FillFields(_, _, _, _)
RECURSIVE FillTuple(_, _, _, _)

\* lines 363-367: the loop over the elements of a tuple, from the i-th on
FillTuple(package_content, field_value, loc, i) ==
    IF i > Len(field_value.items)
    THEN [exc |-> None, content |-> package_content]
    ELSE LET fv == field_value.items[i]
         IN  IF IsNode(fv) /\ ~IsFrozenDictNode(fv)
             THEN LET r == fill_resource_package_content(
                               package_content, fv, Append(loc, i))
                  IN  IF r.exc # None THEN r
                      ELSE FillTuple(r.content, field_value, loc, i + 1)
             ELSE FillTuple(package_content, field_value, loc, i + 1)

\* lines 355-377: the loop over the fields of node, from the i-th on
FillFields(package_content, node, node_loc, i) ==
    IF i > Len(node.fields)
    THEN [exc |-> None, content |-> package_content]
    ELSE LET field_value == node.fields[i].value
             loc == Append(node_loc, i)
         IN  IF IsNode(field_value)
             THEN IF ~IsFrozenDictNode(field_value)
                  THEN LET r == fill_resource_package_content(
                                    package_content, field_value, loc)
                       IN  IF r.exc # None THEN r
                           ELSE FillFields(r.content, node, node_loc, i + 1)
                  ELSE FillFields(package_content, node, node_loc, i + 1)
             ELSE IF field_value.kind = "tuple"
             THEN LET r == FillTuple(package_content, field_value, loc, 1)
                  IN  IF r.exc # None THEN r
                      ELSE FillFields(r.content, node, node_loc, i + 1)
             ELSE IF node.fields[i].tagged
             THEN IF field_value.kind = "RelativeFilePath"
                  THEN FillFields(
                           Append(package_content,
                                  [loc |-> loc, src |-> absolute(field_value)]),
                           node, node_loc, i + 1)
                  ELSE IF field_value.kind = "AnyUrl"
                  THEN FillFields(
                           Append(package_content,
                                  [loc |-> loc, src |-> field_value.path]),
                           node, node_loc, i + 1)
                  ELSE [exc |-> Some("NotImplementedError"),
                        content |-> package_content]
             ELSE FillFields(package_content, node, node_loc, i + 1)

fill_resource_package_content(package_content, node, node_loc) ==
    FillFields(package_content, node, node_loc, 1)

\* the weights formats of a model description
WeightsFormats == {"onnx", "torchscript"}

\* a resource description: its tree, whether it is a model description, and
\* the weights formats it has an entry for
Description(node, is_model, weights) ==
    [node |-> node, is_model |-> is_model, weights |-> weights]

\* isinstance(rd, get_args(model.AnyModel)), line 308: the arguments of the
\* annotated union are the union itself and its field info.  Where instance
\* checks against a union are supported (Python 3.10 on) a model description
\* passes and any other description raises TypeError at the field info;
\* elsewhere the check of the union raises TypeError.
IsInstanceOfAnyModel(rd, union_checks) ==
    IF union_checks /\ rd.is_model
    THEN [exc |-> None, value |-> TRUE]
    ELSE [exc |-> Some("TypeError"), value |-> FALSE]

\* lines 310-316: the description with the first weights entry of the
\* priority order that is present, or ValueError
RECURSIVE select_weights(_, _, _)
select_weights(rd, weights_priority_order, i) ==
    IF i > Len(weights_priority_order)
    THEN [exc |-> Some("ValueError"), rd |-> rd]
    ELSE IF weights_priority_order[i] \in rd.weights
    THEN [exc |-> None,
          rd |-> [rd EXCEPT !.weights = {weights_priority_order[i]}]]
    ELSE select_weights(rd, weights_priority_order, i + 1)

\* lines 320-335: the naming loop over the package content from its i-th
\* item on
RECURSIVE name_files(_, _, _, _)
name_files(package_content, file_names, sources, i) ==
    IF i > Len(package_content)
    THEN [exc |-> None, file_names |-> file_names, file_sources |-> sources]
    ELSE LET src == package_content[i].src
             found == prepare_file_name(sources, src)
         IN  IF found.exc # None
             THEN [exc |-> found.exc, file_names |-> file_names,
                   file_sources |-> sources]
             ELSE name_files(package_content,
                             DictSet(file_names, package_content[i].loc,
                                     found.name[1]),
                             DictSet(sources, found.name[1], src), i + 1)

\* rd.model_copy(update=nest_dict_with_narrow_first_key(file_names, str)):
\* the copy of the tree whose values at the named locations are the file
\* names
RECURSIVE model_copy_update(_, _, _)
model_copy_update(value, loc, file_names) ==
    IF loc \in DOMAIN file_names THEN FileNameValue(file_names[loc])
    ELSE IF IsNode(value) /\ ~IsFrozenDictNode(value)
    THEN [value EXCEPT !.fields =
             [i \in DOMAIN value.fields |->
                 [value.fields[i] EXCEPT !.value =
                     model_copy_update(@, Append(loc, i), file_names)]]]
    ELSE IF value.kind = "tuple"
    THEN [value EXCEPT !.items =
             [i \in DOMAIN value.items |->
                 model_copy_update(value.items[i], Append(loc, i), file_names)]]
    ELSE value

NoPackage(exc, rd) ==
    [exc |-> Some(exc), rd |-> rd, package_content |-> << >>,
     file_sources |-> EmptyMap]

\* prepare_to_package(rd, weights_priority_order=...), lines 291-340
prepare_to_package(rd, weights_priority_order, union_checks) ==
    LET is_model == IF IsNone(weights_priority_order)
                    THEN [exc |-> None, value |-> FALSE]
                    ELSE IsInstanceOfAnyModel(rd, union_checks)
        selected == IF is_model.value
                    THEN select_weights(rd, weights_priority_order.items, 1)
                    ELSE [exc |-> is_model.exc, rd |-> rd]
        filled == fill_resource_package_content(<< >>, selected.rd.node, << >>)
        named == name_files(filled.content, EmptyMap, EmptyMap, 1)
    IN  IF selected.exc # None THEN NoPackage(selected.exc[1], rd)
        ELSE IF filled.exc # None THEN NoPackage(filled.exc[1], rd)
        ELSE IF named.exc # None THEN NoPackage(named.exc[1], rd)
        ELSE [exc |-> None,
              rd |-> [selected.rd EXCEPT !.node =
                         model_copy_update(@, << >>, named.file_names)],
              package_content |-> filled.content,
              file_sources |-> named.file_sources]

\* --------------------------------------------------- node transformers
\* Raw trees: a RawNode of a class with its field values, a list, a tuple
\* and a dict with their items (a dict's items are its values), and strings.
RawNode(cls, fields) ==
    [kind |-> "RawNode", cls |-> cls, items |-> fields, rewritten |-> FALSE]
RawList(items) == [kind |-> "list", cls |-> "list", items |-> items,
                   rewritten |-> FALSE]
RawTuple(items) == [kind |-> "tuple", cls |-> "tuple", items |-> items,
                    rewritten |-> FALSE]
RawDict(items) == [kind |-> "dict", cls |-> "dict", items |-> items,
                   rewritten |-> FALSE]
RawStr == [kind |-> "str", cls |-> "str", items |-> << >>, rewritten |-> FALSE]

\* the rewrite rule transform_<cls> that a transformer defines for a class:
\* here it returns the node marked as rewritten
transform_rule(node) == [node EXCEPT !.rewritten = TRUE]

\* NodeTransformer.transform(node) of a transformer with rules for the
\* classes in rules: the method named after the class of node, transform_list
\* and transform_dict of Transformer, or generic_transformer
RECURSIVE NodeTransformer_transform(_, _)
NodeTransformer_transform(node, rules) ==
    IF node.kind = "RawNode" /\ node.cls \in rules
    THEN transform_rule(node)
    ELSE IF node.kind \in {"list", "dict"}
    THEN [node EXCEPT !.items =
             [i \in DOMAIN node.items |->
                 NodeTransformer_transform(node.items[i], rules)]]
    ELSE IF node.kind = "RawNode"
    THEN [node EXCEPT !.items =
             [i \in DOMAIN node.items |->
                 NodeTransformer_transform(node.items[i], rules)]]
    ELSE node

\* ------------------------------------------------ root of a validation
\* pathlib.Path(), the default of ValidationContext.root: the current
\* directory
CurrentDirectory == "."
\* the key "root" is not in the data
NoRoot == "no root"

\* bool(root) of a ValidationContext's root: a path or a URL, objects without
\* __bool__ and __len__, is true whatever its value
Truth(root) == TRUE

\* ResourceDescriptionBase._get_context_and_update_data, lines 195-207: the
\* root of the context returned and the "root" of the data afterwards, for a
\* class with or without a root field
get_context_and_update_data(has_root_field, data_root, context_root) ==
    LET root == IF Truth(context_root) THEN context_root
                ELSE IF data_root # NoRoot THEN data_root
                ELSE CurrentDirectory
        new_root == IF ~Truth(context_root) THEN root ELSE context_root
    IN  [context_root |-> new_root,
         data_root |-> IF has_root_field THEN new_root ELSE data_root]

\* ------------------------------------------------------- nested updates
MaxListLen == 3
KEEP == "KEEP"
DROP == "DROP"

\* a whole update that is not a list, or a list of updates
ScalarUpdate(value) == [is_list |-> FALSE, value |-> value, items |-> << >>]
ListUpdate(items) == [is_list |-> TRUE, value |-> "list", items |-> items]

\* NestedUpdateTransformer.transform(n, u) on an element that is a string:
\* KEEP returns the element, anything else goes to generic_transformer, which
\* returns the update
transform_element(n, u) == IF u = KEEP THEN n ELSE u

\* [x] * k
Repeat(x, k) == [i \in 1..k |-> x]

NotDrop(element) == element # DROP

\* NestedUpdateTransformer.transform_list(node, update) with a list update
transform_list(node, update) ==
    LET u1 == IF Len(update) < Len(node)
              THEN update \o Repeat(KEEP, Len(node) - Len(update))
              ELSE update
        n1 == IF Len(node) < Len(u1)
              THEN node \o Repeat(DROP, Len(u1) - Len(node))
              ELSE node
        n2 == [i \in DOMAIN n1 |-> transform_element(n1[i], u1[i])]
    IN  SelectSeq(n2, NotDrop)

\* NestedUpdateTransformer.transform(node, update) on a list node: the list
\* returned, or the update that replaces the list
NestedUpdateTransformer_transform(node, update) ==
    IF ~update.is_list /\ update.value = KEEP
    THEN [is_list |-> TRUE, value |-> "list", items |-> node]
    ELSE IF update.is_list
    THEN [is_list |-> TRUE, value |-> "list",
          items |-> transform_list(node, update.items)]
    ELSE update

\* ------------------------------------------------------------ objects
\* Mappings are objects: a write through one reference is seen through every
\* reference to the same object.  The mapping the caller passes in is the
\* object CallerId.
CallerId == 1

\* a reference to the object itself instead of a copy
no_copy(id) == id

\* deepcopy(resource_description): a new object that shares nothing with its
\* argument
deepcopy(id) == id + 1

\* dict(resource_description): a new mapping
dict_copy(id) == id + 1

\* the caller's mapping after a write of data through the reference id
Written(caller_data, id, data) == IF id = CallerId THEN Some(data) ELSE caller_data

\* -------------------------------------------------------------- state
VARIABLES
    optimize,     \* the interpreter runs with -O: assert statements are skipped
    pc,           \* position of the call in progress
    call,         \* arguments of load_description: data, level, format_version
    work,         \* load_description's private copy of the data
    checked,      \* result of check_type_and_format_version
    future_patch_warning,
    rd_class,     \* the class get_rd_class returned
    passes,       \* one record per _load_descr_impl call, in call order
    ret,          \* the (rd, summary) pair returned
    exc,          \* the exception that left load_description
    wrapped,      \* a call of an as_warning wrapper and its result
    resolved,     \* a call of get_rd_class and its result
    converted,    \* a call of a conversion step and its result
    applied,      \* a call of a function on a tree or a mapping and its result
    raw,          \* the mapping of the caller of load_description, as it is now
    work_id,      \* the object that resource_description refers to
    ctxVar,       \* validation_context_var: the value set in each task's Context
    objToken,     \* the attribute _token of each ValidationContext object
    usedTokens,   \* the tokens a reset has consumed
    nextToken,    \* the number of tokens created so far, plus one
    scopes,       \* the `with` scopes each task is inside of, outermost first
    lastExit,     \* what each task's latest __exit__ did
    sharedWith,   \* the tasks that have entered each object
    reentered,    \* the tasks that entered an object they were already inside of
    collector,    \* the package collector at work, "none" before it starts
    file_sources, \* the package content map: file name -> source
    seen,         \* the sources met so far
    processed,    \* how many locations have been named
    last,         \* the latest location named: its source and its file name
    pkgExc        \* the exception that ended the collector

\* what the calls of load_description, as_warning and get_rd_class leave alone
ctxVars == << ctxVar, objToken, usedTokens, nextToken, scopes, lastExit,
             sharedWith, reentered >>

pkgVars == << collector, file_sources, seen, processed, last, pkgExc >>

otherVars == << converted, applied, ctxVars, pkgVars >>
callerVars == << raw, work_id >>

vars == << optimize, pc, call, work, checked, future_patch_warning, rd_class,
           passes, ret, exc, wrapped, resolved, otherVars, callerVars >>

\* ------------------------------------------------------------- inputs
Types == {"model", "generic", "foo", "json", NotAStr}

VersionStrings ==
    { Str(<<a>>) : a \in 0..MaxMajor }
    \cup { Str(<<a, b>>) : a \in 0..MaxMajor, b \in 0..MaxMinor }
    \cup { Str(<<a, b, c>>) : a \in 0..MaxMajor, b \in 0..MaxMinor, c \in 0..MaxPatch }

FormatVersions == VersionStrings \cup {NoValue}

Documents ==
    { [type |-> t, format_version |-> fv, name |-> n, license |-> l,
       malformed |-> m] :
        t \in Types, fv \in FormatVersions, n \in FieldStates("name"),
        l \in FieldStates("license"), m \in BOOLEAN }

NoCall == [data |-> None, level |-> ERROR, format_version |-> DISCOVER]
NoCheck == [exc |-> None, typ |-> NotAStr, fv |-> NoValue, use_fv |-> NoValue]

Init ==
    /\ optimize \in BOOLEAN
    /\ pc = "idle"
    /\ call = NoCall
    /\ work = None
    /\ checked = NoCheck
    /\ future_patch_warning = None
    /\ rd_class = None
    /\ passes = << >>
    /\ ret = None
    /\ exc = None
    /\ wrapped = None
    /\ resolved = None
    /\ converted = None
    /\ applied = None
    /\ raw = None
    /\ work_id = CallerId
    /\ ctxVar = [t \in Tasks |-> Unset]
    /\ objToken = [o \in ContextObjects |-> None]
    /\ usedTokens = {}
    /\ nextToken = 1
    /\ scopes = [t \in Tasks |-> << >>]
    /\ lastExit = [t \in Tasks |-> None]
    /\ sharedWith = [o \in ContextObjects |-> {}]
    /\ reentered = {}
    /\ collector = "none"
    /\ file_sources = EmptyMap
    /\ seen = {}
    /\ processed = 0
    /\ last = None
    /\ pkgExc = None

\* nothing has been called yet; the functions keep no state between calls
AtRest == pc = "idle"

\* the level of the first loading attempt
FirstPassLevel == 50

\* load_description(resource_description, context=..., format_version=...)
\* is entered
LoadDescription ==
    /\ AtRest
    /\ pc' = "check"
    /\ \E data \in Documents, level \in WarningLevel, fmt \in {DISCOVER, LATEST} :
           /\ call' = [data |-> Some(data), level |-> level,
                       format_version |-> fmt]
           /\ raw' = Some(data)
    /\ work_id' = CallerId
    /\ UNCHANGED otherVars
    /\ UNCHANGED << optimize, work, checked, future_patch_warning, rd_class,
                    passes, ret, exc, wrapped, resolved >>

\* load_description, lines 231-242: the check, the deep copy and the
\* rewrite of format_version
CheckAndCopy ==
    /\ pc = "check"
    /\ LET data == call.data[1]
           c == check_type_and_format_version(data.type, data.format_version)
       IN  IF c.exc # None
           THEN /\ exc' = c.exc
                /\ pc' = "raised"
                /\ UNCHANGED << checked, work, future_patch_warning, work_id >>
           ELSE /\ checked' = c
                /\ pc' = "resolve"
                /\ exc' = exc
                /\ IF c.use_fv # c.fv
                   THEN /\ work' = Some([data EXCEPT !.format_version = c.use_fv])
                        /\ work_id' = dict_copy(deepcopy(work_id))
                        /\ future_patch_warning' =
                               Some([loc |-> <<"format_version">>, type |-> "alert"])
                   ELSE /\ work' = Some(data)
                        /\ work_id' = deepcopy(work_id)
                        /\ future_patch_warning' = None
    /\ raw' = raw
    /\ UNCHANGED otherVars
    /\ UNCHANGED << optimize, call, rd_class, passes, ret, wrapped, resolved >>

\* load_description, lines 244-245
ResolveClass ==
    /\ pc = "resolve"
    /\ LET fv == IF call.format_version = DISCOVER
                 THEN checked.use_fv ELSE call.format_version
           r == get_rd_class(checked.typ, fv, ~optimize)
       IN  IF r.exc # None
           THEN /\ exc' = r.exc
                /\ pc' = "raised"
                /\ UNCHANGED rd_class
           ELSE /\ rd_class' = r.cls
                /\ pc' = "pass1"
                /\ UNCHANGED exc
    /\ UNCHANGED << otherVars, callerVars >>
    /\ UNCHANGED << optimize, call, work, checked, future_patch_warning, passes,
                    ret, wrapped, resolved >>

\* the assert statements after the first loading attempt (lines 200-202)
FirstAssertsHold(p) == IsNone(p.errors) /\ IsNone(p.tb) /\ Falsy(p.warnings)
\* the assert statements after the second one (lines 204-205)
SecondAssertsHold(p) == IsNone(p.errors) /\ IsNone(p.tb)

\* a second loading attempt whatever the first one gave
SecondPassAlways(p) == TRUE

\* whether a second loading attempt follows the first (line 194)
SecondPassFollows(p) == p.rd # None

\* load_description_with_known_rd_class, lines 189-202
FirstPass ==
    /\ pc = "pass1"
    /\ LET p == load_descr_impl(rd_class[1], work[1], FirstPassLevel)
       IN  /\ passes' = << p >>
           /\ work' = Some(p.data)
           /\ raw' = Written(raw, work_id, p.data)
           /\ IF ~SecondPassFollows(p)
              THEN pc' = "summary" /\ UNCHANGED exc
              ELSE IF ~optimize /\ ~FirstAssertsHold(p)
              THEN pc' = "raised" /\ exc' = Some("AssertionError")
              ELSE pc' = "pass2" /\ UNCHANGED exc
    /\ UNCHANGED << otherVars, work_id >>
    /\ UNCHANGED << optimize, call, checked, future_patch_warning,
                    rd_class, ret, wrapped, resolved >>

\* load_description_with_known_rd_class, lines 203-205
SecondPass ==
    /\ pc = "pass2"
    /\ LET p == load_descr_impl(rd_class[1], work[1], call.level)
       IN  /\ passes' = Append(passes, p)
           /\ work' = Some(p.data)
           /\ raw' = Written(raw, work_id, p.data)
           /\ IF ~optimize /\ ~SecondAssertsHold(p)
              THEN pc' = "raised" /\ exc' = Some("AssertionError")
              ELSE pc' = "summary" /\ UNCHANGED exc
    /\ UNCHANGED << otherVars, work_id >>
    /\ UNCHANGED << optimize, call, checked, future_patch_warning,
                    rd_class, ret, wrapped, resolved >>

\* ValidationSummary(...) of lines 207-220 and the insertion of the future
\* patch warning (lines 249-251)
Summary(first, val_warnings, fpw) ==
    [ status |-> IF Falsy(first.errors) THEN "passed" ELSE "failed",
      errors |-> first.errors.items,
      traceback |-> IF Falsy(first.tb) THEN None ELSE Some(first.tb.items),
      warnings |-> fpw \o val_warnings.items ]

\* load_description_with_known_rd_class, lines 207-222, and
\* load_description, lines 249-253
Summarize ==
    /\ pc = "summary"
    /\ LET first == passes[1]
           val_warnings == passes[Len(passes)].warnings
       IN  ret' = Some([ rd |-> first.rd,
                         summary |-> Summary(first, val_warnings,
                                             future_patch_warning) ])
    /\ pc' = "returned"
    /\ UNCHANGED << otherVars, callerVars >>
    /\ UNCHANGED << optimize, call, work, checked, future_patch_warning,
                    rd_class, passes, exc, wrapped, resolved >>

\* ---------------------------------------------- calls of single functions
Values == {"v1", "v2"}
FuncOutcomes ==
    { Returns(r) : r \in {"converted"} }
    \cup { Raises(e) : e \in {"AssertionError", "ValueError", "TypeError"} }
Contexts == {None} \cup { Some(l) : l \in WarningLevel }

\* one call wrapper(value, info) of as_warning(func, severity=severity)
CallWrapper ==
    /\ AtRest
    /\ \E outcome \in FuncOutcomes, severity \in Severity, value \in Values,
          context \in Contexts :
           wrapped' = Some([ func |-> outcome, severity |-> severity,
                             value |-> value, context |-> context,
                             result |-> as_warning(outcome, severity, value,
                                                   context) ])
    /\ pc' = "called"
    /\ UNCHANGED << otherVars, callerVars >>
    /\ UNCHANGED << optimize, call, work, checked, future_patch_warning,
                    rd_class, passes, ret, exc, resolved >>

\* one call get_rd_class(type_, format_version)
CallGetRdClass ==
    /\ AtRest
    /\ \E type_ \in Types \ {NotAStr}, fv \in VersionStrings \cup {LATEST} :
           resolved' = Some([ type_ |-> type_, format_version |-> fv,
                              result |-> get_rd_class(type_, fv, ~optimize) ])
    /\ pc' = "called"
    /\ UNCHANGED << otherVars, callerVars >>
    /\ UNCHANGED << optimize, call, work, checked, future_patch_warning,
                    rd_class, passes, ret, exc, wrapped >>

\* the raw documents handed to the conversion steps
ConvVersions == VersionStrings \cup {Missing, NoValue}
RawDocs ==
    { RawDoc(fv, att, url) : fv \in ConvVersions,
                             att \in {"absent", "mapping", "tuple"},
                             url \in BOOLEAN }
RawModels ==
    { RawModel(fv, legacy, source, pytorch, config) :
        fv \in ConvVersions, legacy \in BOOLEAN, source \in BOOLEAN,
        pytorch \in {"absent", "entry"},
        config \in {"absent", "empty", "future_only", "future_and_other", "other"} }

\* one call Generic.convert_from_older_format(data, raise_unconvertable) of
\* generic.v0_3
CallConvertGeneric ==
    /\ AtRest
    /\ \E data \in RawDocs :
           converted' = Some([ step |-> "generic.v0_3", input |-> data,
                               output |-> v0_3_convert_from_older_format(data) ])
    /\ pc' = "called"
    /\ UNCHANGED << applied, ctxVars, pkgVars, callerVars >>
    /\ UNCHANGED << optimize, call, work, checked, future_patch_warning,
                    rd_class, passes, ret, exc, wrapped, resolved >>

\* one call model.v0_4.converters.maybe_convert(data)
CallConvertModel ==
    /\ AtRest
    /\ \E data \in RawModels :
           converted' = Some([ step |-> "model.v0_4", input |-> data,
                               output |-> model_v0_4_maybe_convert(data),
                               caller |-> model_v0_4_caller_data(data) ])
    /\ pc' = "called"
    /\ UNCHANGED << applied, ctxVars, pkgVars, callerVars >>
    /\ UNCHANGED << optimize, call, work, checked, future_patch_warning,
                    rd_class, passes, ret, exc, wrapped, resolved >>

\* one call cls.maybe_convert_model(data) of an IO class, on data of the
\* revision rev (0: older than the oldest class, NumIOClasses + 1: newer
\* than the newest)
CallMaybeConvertModel ==
    /\ AtRest
    /\ \E cls \in IOClasses, rev \in 0..(NumIOClasses + 1) :
           converted' = Some([ step |-> "IO_Base", cls |-> cls,
                               input |-> [rev |-> rev, steps |-> << >>],
                               output |-> maybe_convert_model(
                                              cls, [rev |-> rev, steps |-> << >>]) ])
    /\ pc' = "called"
    /\ UNCHANGED << applied, ctxVars, pkgVars, callerVars >>
    /\ UNCHANGED << optimize, call, work, checked, future_patch_warning,
                    rd_class, passes, ret, exc, wrapped, resolved >>

\* what a `with ValidationContext` scope leaves alone
loadVars == << optimize, pc, call, work, checked, future_patch_warning,
              rd_class, passes, ret, exc, wrapped, resolved, converted, applied,
              raw, work_id >>

\* ValidationContext.__enter__ of the object obj, in the task `task`
Enter(task, obj) ==
    /\ Len(scopes[task]) < MaxDepth
    /\ nextToken <= MaxTokens
    /\ objToken' = [objToken EXCEPT
                       ![obj] = Some(Token(nextToken, task, ctxVar[task]))]
    /\ nextToken' = nextToken + 1
    /\ ctxVar' = [ctxVar EXCEPT ![task] = obj]
    /\ scopes' = [scopes EXCEPT
                     ![task] = Append(@, [obj |-> obj, before |-> ctxVar[task]])]
    /\ sharedWith' = [sharedWith EXCEPT ![obj] = @ \cup {task}]
    /\ reentered' = IF \E i \in DOMAIN scopes[task] : scopes[task][i].obj = obj
                    THEN reentered \cup {task} ELSE reentered
    /\ UNCHANGED << usedTokens, lastExit >>
    /\ UNCHANGED << loadVars, pkgVars >>

\* ValidationContext.__exit__ of the innermost scope of the task `task`,
\* left normally (exc_type = "None") or by an exception
Exit(task, exc_type) ==
    /\ scopes[task] # << >>
    /\ LET top == scopes[task][Len(scopes[task])]
           r == ContextVarReset(objToken[top.obj][1], task, usedTokens)
       IN  /\ scopes' = [scopes EXCEPT ![task] = SubSeq(@, 1, Len(@) - 1)]
           /\ IF r.exc = None
              THEN /\ ctxVar' = [ctxVar EXCEPT ![task] = r.restored[1]]
                   /\ usedTokens' = usedTokens \cup {objToken[top.obj][1].id}
              ELSE UNCHANGED << ctxVar, usedTokens >>
           /\ lastExit' = [lastExit EXCEPT
                   ![task] = Some([ obj |-> top.obj, before |-> top.before,
                                    after |-> ctxVar'[task], exc |-> r.exc ])]
    /\ UNCHANGED << objToken, nextToken, sharedWith, reentered >>
    /\ UNCHANGED << loadVars, pkgVars >>

EnterScope == \E task \in Tasks, obj \in ContextObjects : Enter(task, obj)
ExitScope == \E task \in Tasks, exc_type \in {"None", "Exception"} : Exit(task, exc_type)

NextCtx ==
    \/ EnterScope
    \/ ExitScope

\* nested and concurrent `with ValidationContext(...)` scopes
SpecCtx == Init /\ [][NextCtx]_vars

\* The sources a collector may meet next: one met before, or a new one, the
\* ids given in order of first appearance.  Its file is "weights.onnx", or,
\* for the first sources, a file with a tag in its own name.
NextSources ==
    seen \cup
    (IF Cardinality(seen) < MaxSources
     THEN { Source(Cardinality(seen) + 1, FileName("weights", tags)) :
              tags \in {<< >>} \cup
                  (IF Cardinality(seen) < MaxTagged
                   THEN { << <<"_", 2>> >>, << <<"-", 0>> >> } ELSE {}) }
     ELSE {})

\* prepare_to_package reaches its naming loop (lines 318-321), or a
\* RawNodePackageTransformer is made with an empty remote_resources
StartCollector ==
    /\ collector = "none"
    /\ collector' \in {"prepare_to_package", "RawNodePackageTransformer"}
    /\ UNCHANGED << file_sources, seen, processed, last, pkgExc >>
    /\ UNCHANGED << loadVars, ctxVars >>

\* what both collectors do with the name they found for src
FileUnder(src, found) ==
    /\ seen' = seen \cup {src}
    /\ processed' = processed + 1
    /\ IF found.exc # None
       THEN /\ pkgExc' = found.exc
            /\ collector' = "raised"
            /\ UNCHANGED << file_sources, last >>
       ELSE /\ file_sources' = DictSet(file_sources, found.name[1], src)
            /\ last' = Some([src |-> src, name |-> found.name[1],
                              again |-> src \in seen])
            /\ UNCHANGED << pkgExc, collector >>

\* one round of the naming loop of prepare_to_package (lines 322-335)
NameNextFile ==
    /\ collector = "prepare_to_package"
    /\ processed < MaxLocs
    /\ \E src \in NextSources : FileUnder(src, prepare_file_name(file_sources, src))
    /\ UNCHANGED << loadVars, ctxVars >>

\* one call of RawNodePackageTransformer._transform_resource on a path or URI
TransformResource ==
    /\ collector = "RawNodePackageTransformer"
    /\ processed < MaxLocs
    /\ \E src \in NextSources :
           FileUnder(src, transform_resource_name(
                              file_sources, src, extract_file_name(src),
                              extract_file_name(src), 0))
    /\ UNCHANGED << loadVars, ctxVars >>

\* prepare_to_package returns (line 340), or the transformation is over
ReturnPackage ==
    /\ collector \in {"prepare_to_package", "RawNodePackageTransformer"}
    /\ collector' = "returned"
    /\ UNCHANGED << file_sources, seen, processed, last, pkgExc >>
    /\ UNCHANGED << loadVars, ctxVars >>

NextPkg ==
    \/ StartCollector
    \/ NameNextFile
    \/ TransformResource
    \/ ReturnPackage

\* the package collectors
SpecPkg == Init /\ [][NextPkg]_vars

\* ----------------------------------------- calls on trees and mappings
\* the descriptions given to prepare_to_package: a root node whose fields
\* hold a file reference, None, a string, a node or a FrozenDictNode with one
\* field, or a tuple of file references, nodes and FrozenDictNodes
Roots ==
    LET Leaves == {RelativeFilePath, AnyUrl, NoneValue, StrValue}
        InnerNodes ==
            { NodeValue(frozen, << Field(tagged, RelativeFilePath) >>) :
                  frozen \in BOOLEAN, tagged \in BOOLEAN }
        TupleItems ==
            { RelativeFilePath,
              NodeValue(FALSE, << Field(TRUE, RelativeFilePath) >>),
              NodeValue(TRUE, << Field(TRUE, RelativeFilePath) >>) }
        Tuples ==
            { TupleValue(items) :
                  items \in UNION { [1..n -> TupleItems] : n \in 0..MaxItems } }
        Fields ==
            { Field(tagged, value) :
                  tagged \in BOOLEAN,
                  value \in Leaves \cup InnerNodes \cup Tuples }
    IN  { NodeValue(FALSE, fields) :
              fields \in UNION { [1..n -> Fields] : n \in 1..MaxFields } }

\* calls without a priority order on every tree, calls with one on the
\* trees of one field
PackageCalls ==
    LET PriorityOrders ==
            { PyList(<< >>) }
            \cup { PyList(<< w >>) : w \in WeightsFormats }
            \cup { PyList(<< w[1], w[2] >>) :
                       w \in { p \in WeightsFormats \X WeightsFormats :
                                   p[1] # p[2] } }
    IN  { [rd |-> Description(node, is_model, weights),
           weights_priority_order |-> PyNone, union_checks |-> TRUE] :
              node \in Roots, is_model \in BOOLEAN,
              weights \in {WeightsFormats} }
        \cup
        { [rd |-> Description(node, is_model, weights),
           weights_priority_order |-> order, union_checks |-> union_checks] :
              node \in { r \in Roots : Len(r.fields) = 1 },
              is_model \in BOOLEAN, weights \in SUBSET WeightsFormats,
              order \in PriorityOrders, union_checks \in BOOLEAN }

\* one call prepare_to_package(rd, weights_priority_order=...)
CallPrepareToPackage ==
    /\ AtRest
    /\ \E c \in PackageCalls :
           applied' = Some([ fn |-> "prepare_to_package", rd |-> c.rd,
                             weights_priority_order |-> c.weights_priority_order,
                             union_checks |-> c.union_checks,
                             out |-> prepare_to_package(
                                         c.rd, c.weights_priority_order,
                                         c.union_checks) ])
    /\ pc' = "called"
    /\ UNCHANGED << ctxVars, pkgVars, callerVars >>
    /\ UNCHANGED << optimize, call, work, checked, future_patch_warning,
                    rd_class, passes, ret, exc, wrapped, resolved, converted >>

\* the raw trees given to a node transformer: a node B whose fields hold a
\* string, a node A, or a list, a tuple or a dict of strings and nodes
RawRoots ==
    LET RawItems == { RawStr, RawNode("A", << >>),
                      RawNode("B", << RawNode("A", << >>) >>) }
        RawItemSeqs == UNION { [1..n -> RawItems] : n \in 0..MaxItems }
        RawValues ==
            { RawStr, RawNode("A", << >>) }
            \cup { RawList(items) : items \in RawItemSeqs }
            \cup { RawTuple(items) : items \in RawItemSeqs }
            \cup { RawDict(items) : items \in RawItemSeqs }
    IN  { RawNode("B", fields) :
              fields \in UNION { [1..n -> RawValues] : n \in 1..MaxFields } }

\* one call transform(node) of a NodeTransformer that defines transform_A or
\* no rule at all
CallNodeTransformer ==
    /\ AtRest
    /\ \E node \in RawRoots, rules \in SUBSET {"A"} :
           applied' = Some([ fn |-> "NodeTransformer.transform",
                             node |-> node, rules |-> rules,
                             out |-> NodeTransformer_transform(node, rules) ])
    /\ pc' = "called"
    /\ UNCHANGED << ctxVars, pkgVars, callerVars >>
    /\ UNCHANGED << optimize, call, work, checked, future_patch_warning,
                    rd_class, passes, ret, exc, wrapped, resolved, converted >>

\* the data versions given to get_matching_io_class
DataVersions ==
    { DataVersion(FALSE, FALSE, 0), DataVersion(TRUE, FALSE, 0) }
    \cup { DataVersion(TRUE, TRUE, rev) : rev \in 0..(NumIOClasses + 1) }

\* one call cls.get_matching_io_class(data_version, action_descr)
CallGetMatchingIOClass ==
    /\ AtRest
    /\ \E cls \in IOClasses, data_version \in DataVersions :
           applied' = Some([ fn |-> "get_matching_io_class", cls |-> cls,
                             data_version |-> data_version,
                             out |-> get_matching_io_class(cls, data_version) ])
    /\ pc' = "called"
    /\ UNCHANGED << ctxVars, pkgVars, callerVars >>
    /\ UNCHANGED << optimize, call, work, checked, future_patch_warning,
                    rd_class, passes, ret, exc, wrapped, resolved, converted >>

\* the roots a context or a document may give
GivenRoots == {"/ctx", "/doc"}

\* one call cls._get_context_and_update_data(data, context)
CallGetContext ==
    /\ AtRest
    /\ \E has_root_field \in BOOLEAN, data_root \in GivenRoots \cup {NoRoot},
          context_root \in GivenRoots \cup {CurrentDirectory} :
           applied' = Some([ fn |-> "_get_context_and_update_data",
                             has_root_field |-> has_root_field,
                             data_root |-> data_root,
                             context_root |-> context_root,
                             out |-> get_context_and_update_data(
                                         has_root_field, data_root,
                                         context_root) ])
    /\ pc' = "called"
    /\ UNCHANGED << ctxVars, pkgVars, callerVars >>
    /\ UNCHANGED << optimize, call, work, checked, future_patch_warning,
                    rd_class, passes, ret, exc, wrapped, resolved, converted >>

\* the list nodes and the updates given to NestedUpdateTransformer
ListNodes == UNION { [1..n -> {"a", DROP}] : n \in 0..MaxListLen }
Updates ==
    { ScalarUpdate(KEEP), ScalarUpdate("b") }
    \cup { ListUpdate(items) :
               items \in UNION { [1..n -> {KEEP, DROP, "b"}] :
                                     n \in 0..MaxListLen } }

\* one call NestedUpdateTransformer().transform(node, update) on a list
CallNestedUpdate ==
    /\ AtRest
    /\ \E node \in ListNodes, update \in Updates :
           applied' = Some([ fn |-> "NestedUpdateTransformer.transform",
                             node |-> node, update |-> update,
                             out |-> NestedUpdateTransformer_transform(
                                         node, update) ])
    /\ pc' = "called"
    /\ UNCHANGED << ctxVars, pkgVars, callerVars >>
    /\ UNCHANGED << optimize, call, work, checked, future_patch_warning,
                    rd_class, passes, ret, exc, wrapped, resolved, converted >>

NextFn ==
    \/ CallPrepareToPackage
    \/ CallNodeTransformer
    \/ CallGetMatchingIOClass
    \/ CallGetContext
    \/ CallNestedUpdate

SpecFn == Init /\ [][NextFn]_vars

Next ==
    \/ LoadDescription
    \/ CheckAndCopy
    \/ ResolveClass
    \/ FirstPass
    \/ SecondPass
    \/ Summarize
    \/ CallWrapper
    \/ CallGetRdClass
    \/ CallConvertGeneric
    \/ CallConvertModel
    \/ CallMaybeConvertModel

Spec == Init /\ [][Next]_vars

\* ------------------------------------------------------------- claims
Ended == pc \in {"returned", "raised"}
Data == call.data[1]
ToSet(seq) == { seq[i] : i \in DOMAIN seq }

\* C1: load_description returns (rd, summary) with rd present iff the
\* status is "passed", the status is "failed" exactly when there are errors,
\* and a document that validates without error is returned with "passed".
C1_RdIffPassed ==
    /\ pc = "returned" =>
          /\ (ret[1].rd # None) <=> (ret[1].summary.status = "passed")
          /\ (ret[1].summary.status = "failed") <=> (ret[1].summary.errors # << >>)
    /\ (Ended /\ passes # << >> /\ passes[1].rd # None) =>
          /\ pc = "returned"
          /\ ret[1].rd # None
          /\ ret[1].summary.status = "passed"

\* C2: load_description never lets an exception reach its caller, whatever
\* the raw mapping, and a summary carries a traceback only for a failure that
\* is not a problem of the data.
C2_NoExceptionPropagates ==
    /\ pc # "raised"
    /\ (pc = "returned" /\ ret[1].summary.traceback # None) => ~Data.malformed

\* C3: the wrapper of as_warning(func, severity=s) raises a warning-typed
\* error iff func fails with AssertionError or ValueError and s >= L (L is 50
\* when the context gives no level); when func passes, or fails so with
\* s < L, it returns the very value it was given, not what func returned.
C3_AsWarningWrapper ==
    wrapped # None =>
        LET w == wrapped[1]
            L == IF w.context = None THEN 50 ELSE w.context[1]
            fails == w.func.exc \in {<<"AssertionError">>, <<"ValueError">>}
            name == CASE w.severity = 20 -> "info"
                      [] w.severity = 30 -> "warning"
                      [] w.severity = 35 -> "alert"
        IN  /\ (w.result.kind = "raise_warning") <=> (fails /\ w.severity >= L)
            /\ (w.result.kind = "raise_warning") => (w.result.type = name)
            /\ (w.func.exc = None \/ (fails /\ w.severity < L)) =>
                  /\ w.result.kind = "return"
                  /\ w.result.value = w.value
                  /\ w.result.value # w.func.ret

\* C3 witness: a check of severity WARNING fails with ValueError under the
\* level WARNING and is raised as a "warning".
C3_Witness ==
    /\ wrapped # None
    /\ wrapped[1].func.exc = <<"ValueError">>
    /\ wrapped[1].severity = 30
    /\ wrapped[1].context = <<30>>
    /\ wrapped[1].result.kind = "raise_warning"

\* a document all of whose hard constraints hold, with a deprecated license
\* (the warn-wrapped check of severity WARNING fails), that reached validation
SoftLicenseValidated ==
    /\ Ended
    /\ passes # << >>
    /\ Data.name = "ok" /\ Data.license = "soft" /\ ~Data.malformed

\* C4: a failing warn-wrapped check whose severity is below the context's
\* warning_level leaves the status "passed" and is reported as a warning at
\* the field's location.
C4_WarningReported ==
    (SoftLicenseValidated /\ call.level > WARNING) =>
        /\ pc = "returned"
        /\ ret[1].summary.status = "passed"
        /\ \E w \in ToSet(ret[1].summary.warnings) : w.loc = <<"license">>

\* C5: with the caller's warning_level at or below the severity of a failing
\* warn-wrapped check, the status is "failed", the condition is among the
\* errors and no description is returned.
C5_EscalatedFails ==
    (SoftLicenseValidated /\ call.level <= WARNING) =>
        /\ pc = "returned"
        /\ ret[1].summary.status = "failed"
        /\ \E e \in ToSet(ret[1].summary.errors) : e.loc = <<"license">>
        /\ ret[1].rd = None

C7_WarningErrorPartition ==
    (rd_class # None /\ work # None) =>
        LET strict == load_descr_impl(rd_class[1], work[1], INFO)
            lenient == load_descr_impl(rd_class[1], work[1], call.level)
            E1 == ToSet(strict.errors.items)
            E2 == ToSet(lenient.errors.items)
        IN  /\ E2 \subseteq E1
            /\ \A e \in E1 \ E2 :
                  \E w \in ToSet(lenient.warnings.items) :
                      w.loc = e.loc /\ w.type \in {"info", "warning", "alert"}

\* (ma, mi) is strictly greater than every MAJOR.MINOR registered for typ
NewerThanAll(typ, ma, mi) ==
    \A c \in RdClasses : c.typ = typ => (c.ma < ma \/ (c.ma = ma /\ c.mi < mi))

\* a call, with the default format_version argument, for a document of a
\* known type that declares a MAJOR.MINOR.PATCH newer than every known
\* MAJOR.MINOR of its type
FutureMinorCall ==
    /\ call.data # None
    /\ call.format_version = DISCOVER
    /\ Data.type \in {"model", "generic"}
    /\ Data.format_version.kind = "str"
    /\ Len(Data.format_version.parts) = 3
    /\ NewerThanAll(Data.type, Data.format_version.parts[1],
                    Data.format_version.parts[2])

C9_ResolvesByMajorMinor ==
    /\ \A c, d \in RdClasses :
          (RegisteredType(c) = RegisteredType(d) /\ <<c.ma, c.mi>> = <<d.ma, d.mi>>)
              => c = d
    /\ (resolved # None /\ resolved[1].format_version.kind = "str") =>
          LET r == resolved[1]
              parts == r.format_version.parts
              mm == IF Len(parts) = 1 THEN <<parts[1], 0>>
                    ELSE <<parts[1], parts[2]>>
              t == IF \E c \in RdClasses : c.typ = r.type_ THEN r.type_
                   ELSE "generic"
              found == { c \in RdClasses : c.typ = t /\ <<c.ma, c.mi>> = mm }
          IN  /\ (r.result.cls # None) <=> (found # {})
              /\ (r.result.cls # None) => (r.result.cls[1] \in found)
              /\ (r.result.cls = None) => (r.result.exc = <<"NotImplementedError">>)
              /\ \A p \in 0..MaxPatch :
                    r.result = get_rd_class(r.type_, Str(mm \o <<p>>), ~optimize)
              /\ r.result = get_rd_class(r.type_, Str(mm), ~optimize)

\* C9 witness: "0.4.2", a patch beyond the implemented one, resolved to the
\* model class of 0.4.
C9_Witness ==
    /\ resolved # None
    /\ resolved[1].type_ = "model"
    /\ resolved[1].format_version.parts = <<0, 4, 2>>
    /\ resolved[1].result.cls # None
    /\ resolved[1].result.cls[1].mi = 4

\* C10: every (type, version) that get_supported_format_versions lists is
\* resolved by get_rd_class to a class, and load_description of a document
\* that declares it gets to validation.
C10_AdvertisedResolves ==
    /\ (resolved # None
        /\ resolved[1].format_version \in
               get_supported_format_versions(resolved[1].type_))
          => resolved[1].result.cls # None
    /\ (Ended /\ call.format_version = DISCOVER /\ Data.type # NotAStr
        /\ Data.format_version \in get_supported_format_versions(Data.type))
          => passes # << >>
\* C11: for every known type, get_rd_class(type, "latest") returns the class
\* of the newest registered MAJOR.MINOR revision of that type, and
\* load_description(..., format_version="latest") validates against it.
C11_LatestResolves ==
    /\ (resolved # None /\ resolved[1].format_version = LATEST
        /\ resolved[1].type_ \in {"model", "generic"})
          => resolved[1].result.cls = Some(LatestClass(resolved[1].type_))
    /\ (call.format_version = LATEST /\ checked # NoCheck
        /\ Data.type \in {"model", "generic"} /\ pc # "resolve")
          => rd_class = Some(LatestClass(Data.type))

\* the registered revision of the declared MAJOR.MINOR of a known type
DeclaredRevision ==
    { c \in RdClasses : /\ c.typ = Data.type
                        /\ Len(Data.format_version.parts) = 3
                        /\ c.ma = Data.format_version.parts[1]
                        /\ c.mi = Data.format_version.parts[2] }

\* a call, with the default format_version argument, for a document of a
\* known type whose MAJOR.MINOR is known and whose patch is newer than the
\* implemented one
FuturePatchCall ==
    /\ call.data # None
    /\ call.format_version = DISCOVER
    /\ Data.format_version.kind = "str"
    /\ \E c \in DeclaredRevision : Data.format_version.parts[3] > c.pa

\* the same with a patch that is implemented
SupportedPatchCall ==
    /\ call.data # None
    /\ call.format_version = DISCOVER
    /\ Data.format_version.kind = "str"
    /\ \E c \in DeclaredRevision : Data.format_version.parts[3] <= c.pa

\* C12: a document with a future patch of a known MAJOR.MINOR is validated
\* as the newest known patch of that MAJOR.MINOR and its summary's warnings
\* start with one "alert" at ("format_version",), followed by the warnings of
\* validation; a document that declares a supported version gets no such
\* warning.
C12_FuturePatchRoundedDown ==
    /\ (FuturePatchCall /\ Ended) =>
          /\ pc = "returned"
          /\ passes # << >>
          /\ \E c \in DeclaredRevision :
                 work[1].format_version = implemented_format_version(c)
          /\ ret[1].summary.warnings =
                 << [loc |-> <<"format_version">>, type |-> "alert"] >>
                 \o passes[Len(passes)].warnings.items
    /\ (SupportedPatchCall /\ pc = "returned") =>
          \A w \in ToSet(ret[1].summary.warnings) : w.loc # <<"format_version">>
\* the keys of a raw generic document, without the record of the rewrites
Keys(data) == << data.format_version, data.attachments, data.download_url >>

\* C13: the generic 0.3 step leaves a raw document whose format_version is
\* 0.3.x or newer equal, key for key and value for value (format_version,
\* attachments and download_url included).
C13_NoOpAtOrAboveFloor ==
    (converted # None /\ converted[1].step = "generic.v0_3"
     /\ converted[1].input.format_version.kind = "str"
     /\ Len(converted[1].input.format_version.parts) = 3
     /\ ~TupleLess(MajorMinor(converted[1].input.format_version), <<0, 3>>))
        => Keys(converted[1].output) = Keys(converted[1].input)

\* the rewrites go upwards one after the other: each starts where the one
\* before ended, and ends at a newer revision
Ascending(steps, revLess(_, _)) ==
    \A i \in DOMAIN steps :
        /\ revLess(steps[i].from, steps[i].to)
        /\ i > 1 => steps[i].from = steps[i - 1].to

IntLess(a, b) == a < b

\* C14: on legacy data (a declared revision older than the target's) the
\* steps are applied oldest revision first: the rewrites recorded go upwards
\* without a gap from the declared revision, each raising the data by one
\* revision, the target's own rewrite comes last, after the preceding
\* revision's, and the data ends at the target revision.
C14_OldestFirst ==
    /\ (converted # None /\ converted[1].step = "IO_Base"
        /\ converted[1].input.rev < converted[1].cls) =>
          LET c == converted[1]
          IN  /\ c.output.rev = c.cls
              /\ Len(c.output.steps) = c.cls - IF c.input.rev = 0 THEN 0 ELSE c.input.rev
              /\ c.output.steps[1].from = c.input.rev
              /\ c.output.steps[Len(c.output.steps)].to = c.cls
              /\ \A i \in DOMAIN c.output.steps :
                    c.output.steps[i].to = (IF i = 1 /\ c.input.rev = 0 THEN 1
                                           ELSE c.output.steps[i].from + 1)
              /\ Ascending(c.output.steps, IntLess)
    /\ (converted # None /\ converted[1].step = "generic.v0_3"
        /\ converted[1].input.format_version.kind = "str"
        /\ Len(converted[1].input.format_version.parts) = 3
        /\ TupleLess(MajorMinor(converted[1].input.format_version), <<0, 3>>)) =>
          LET c == converted[1]
              n == Len(c.output.steps)
          IN  /\ MajorMinor(c.output.format_version) = <<0, 3>>
              /\ n = IF TupleLess(MajorMinor(c.input.format_version), <<0, 2>>)
                     THEN 2 ELSE 1
              /\ c.output.steps[1].from = MajorMinor(c.input.format_version)
              /\ c.output.steps[n] = Rewrite(<<0, 2>>, <<0, 3>>)
              /\ Ascending(c.output.steps, TupleLess)
    /\ (converted # None /\ converted[1].step = "model.v0_4"
        /\ converted[1].input.format_version.kind = "str"
        /\ Len(converted[1].input.format_version.parts) = 3
        /\ TupleLess(MajorMinor(converted[1].input.format_version), <<0, 4>>)) =>
          LET c == converted[1]
              n == Len(c.output.data.steps)
          IN  /\ c.output.exc = None
              /\ MajorMinor(c.output.data.format_version) = <<0, 4>>
              /\ n = IF TupleLess(MajorMinor(c.input.format_version), <<0, 3>>)
                     THEN 2 ELSE 1
              /\ c.output.data.steps[1].from = MajorMinor(c.input.format_version)
              /\ c.output.data.steps[n] = Rewrite(<<0, 3>>, <<0, 4>>)
              /\ Ascending(c.output.data.steps, TupleLess)

\* C14 witness: the newest IO class converted data of the oldest revision,
\* through every revision in between.
C14_Witness ==
    /\ converted # None
    /\ converted[1].step = "IO_Base"
    /\ converted[1].cls = NumIOClasses
    /\ converted[1].input.rev = 1
    /\ Len(converted[1].output.steps) = NumIOClasses - 1
    /\ converted[1].output.rev = NumIOClasses
\* C15: when the conversion step raises, load_description returns status
\* "failed" with exactly one error, at loc (), whose type is the name of the
\* exception's class, with no field-level error and no description, after a
\* single pass.
C15_ConversionFailure ==
    (Ended /\ passes # << >>
     /\ ConvertFromOlderFormat(rd_class[1], work[1]) # None) =>
        /\ pc = "returned"
        /\ Len(passes) = 1
        /\ ret[1].rd = None
        /\ ret[1].summary.status = "failed"
        /\ ret[1].summary.errors =
               << [loc |-> << >>,
                   type |-> ConvertFromOlderFormat(rd_class[1], work[1])[1]] >>

\* C15 witness: a model whose legacy data the conversion cannot interpret,
\* and whose name also breaks a field constraint, is returned as failed with
\* the conversion's error alone.
C15_Witness ==
    /\ pc = "returned"
    /\ Data.type = "model"
    /\ Data.malformed
    /\ Data.name = "hard"
    /\ ret[1].summary.status = "failed"
    /\ Len(ret[1].summary.errors) = 1
    /\ ret[1].summary.errors[1].type = "ConversionError"

\* C18: in every pass run for one document, original_format is the
\* (MAJOR, MINOR, PATCH) the document declared, the same in the first and in
\* the second pass.
C18_OriginalFormatIsDeclared ==
    (call.data # None /\ Data.format_version.kind = "str"
     /\ Len(Data.format_version.parts) = 3) =>
        \A i \in DOMAIN passes :
            passes[i].original_format = Some(Data.format_version.parts)
\* inside a scope the variable holds the scope's context
InScopeHolds(task) ==
    scopes[task] # << >> =>
        Get(ctxVar[task]) = scopes[task][Len(scopes[task])].obj

\* the latest exit of the task restored the value held before the scope was
\* entered, and raised nothing
ExitRestored(task) ==
    lastExit[task] # None =>
        /\ lastExit[task][1].exc = None
        /\ Get(lastExit[task][1].after) = Get(lastExit[task][1].before)

\* C16: for nested scopes of one task (scopes left by an exception and an
\* object entered again while active included), inside a scope
\* validation_context_var holds the scope's context and after each exit it
\* holds the value it held before the scope was entered.  A task is looked
\* at while no other task has entered any of its objects.
C16_ScopesRestore ==
    \A task \in Tasks :
        (\A obj \in ContextObjects :
            task \in sharedWith[obj] => sharedWith[obj] = {task})
        => (InScopeHolds(task) /\ ExitRestored(task))

\* C17: tasks that validate concurrently, each inside its own scopes, see
\* only contexts they entered themselves, and every exit restores the value
\* the task's variable held before the scope, under every interleaving, also
\* for an object that both tasks enter.  A task is looked at while it has not
\* entered an object it was already inside of.
C17_TasksIsolated ==
    \A task \in Tasks :
        task \notin reentered =>
            /\ ctxVar[task] # Unset => task \in sharedWith[ctxVar[task]]
            /\ InScopeHolds(task)
            /\ ExitRestored(task)
\* C19: of the distinct sources whose file is "weights.onnx", the first met
\* is filed under "weights.onnx", the second under "weights_2.onnx", and the
\* k-th under "weights_k.onnx", in order of first appearance, whatever the
\* collector.  Looked at while every source met is a "weights.onnx".
C19_ClashSuffixes ==
    (\A src \in seen : src.file = FileName("weights", << >>)) =>
        /\ pkgExc = None
        /\ last # None =>
              last[1].name = IF last[1].src.id = 1
                             THEN FileName("weights", << >>)
                             ELSE FileName("weights", << <<"_", last[1].src.id>> >>)

\* C20: an entry of the package content map is never removed nor replaced
\* by another source, whatever the number and the order of the sources with
\* clashing file names.
C20_NeverOverwritten ==
    [][\A n \in DOMAIN file_sources :
          n \in DOMAIN file_sources' /\ file_sources'[n] = file_sources[n]]_vars

\* C20 witness: three distinct sources with the file name "weights.onnx",
\* and a file whose own name is that of an alternative, are on the map, each
\* under a name of its own.
C20_Witness ==
    /\ collector = "returned"
    /\ Cardinality(seen) >= 4
    /\ Cardinality({ src \in seen : src.file = FileName("weights", << >>) }) >= 3
    /\ \E src \in seen : src.file = FileName("weights", << <<"_", 2>> >>)
    /\ Cardinality(DOMAIN file_sources) = Cardinality(seen)
    /\ \A src \in seen : \E n \in DOMAIN file_sources : file_sources[n] = src
\* the names under which src is on the package content map
NamesOf(src) == { n \in DOMAIN file_sources : file_sources[n] = src }

\* C21: a source met at several locations is on the package content map
\* once: the map never holds two names for one source, and every occurrence
\* is given the name the source already has, also a name with a suffix.
C21_CollectedOnce ==
    /\ \A src \in seen : Cardinality(NamesOf(src)) <= 1
    /\ (last # None /\ pkgExc = None) => NamesOf(last[1].src) = {last[1].name}

\* C21 witness: a source that was filed under a suffixed name because of a
\* clash is met again and gets the same name.
C21_Witness ==
    /\ last # None
    /\ last[1].again
    /\ last[1].name # extract_file_name(last[1].src)
    /\ NamesOf(last[1].src) = {last[1].name}
    /\ Cardinality(seen) >= 3
\* the last call was prepare_to_package and it returned
Packaged == applied # None /\ applied[1].fn = "prepare_to_package"
                /\ applied[1].out.exc = None

IsPrefix(p, loc) == Len(p) <= Len(loc) /\ SubSeq(loc, 1, Len(p)) = p

\* the value of a tree at a location
RECURSIVE ValueAt(_, _)
ValueAt(value, loc) ==
    IF loc = << >> THEN value
    ELSE IF value.kind = "Node"
    THEN ValueAt(value.fields[Head(loc)].value, Tail(loc))
    ELSE ValueAt(value.items[Head(loc)], Tail(loc))

\* the locations of the open mapping nodes of a tree
RECURSIVE OpenMappingLocs(_, _)
OpenMappingLocs(value, loc) ==
    IF value.kind = "Node"
    THEN IF value.frozen THEN {loc}
         ELSE UNION { OpenMappingLocs(value.fields[i].value, Append(loc, i)) :
                          i \in DOMAIN value.fields }
    ELSE IF value.kind = "tuple"
    THEN UNION { OpenMappingLocs(value.items[i], Append(loc, i)) :
                     i \in DOMAIN value.items }
    ELSE {}

ContentLocs(package_content) ==
    { package_content[i].loc : i \in DOMAIN package_content }

IsFileReference(value) == value.kind \in {"RelativeFilePath", "AnyUrl"}

\* the locations of the tagged file references of a tree outside its open
\* mapping nodes: tagged fields holding one, and the elements of tagged
\* fields holding a sequence of them
RECURSIVE TaggedFileLocs(_, _)
TaggedFileLocs(node, node_loc) ==
    UNION { LET field == node.fields[i]
                loc == Append(node_loc, i)
            IN  IF field.value.kind = "Node"
                THEN IF field.value.frozen THEN {}
                     ELSE TaggedFileLocs(field.value, loc)
                ELSE IF field.value.kind = "tuple"
                THEN UNION { LET fv == field.value.items[j]
                             IN  IF fv.kind = "Node"
                                 THEN IF fv.frozen THEN {}
                                      ELSE TaggedFileLocs(fv, Append(loc, j))
                                 ELSE IF field.tagged /\ IsFileReference(fv)
                                 THEN {Append(loc, j)}
                                 ELSE {} : j \in DOMAIN field.value.items }
                ELSE IF field.tagged /\ IsFileReference(field.value)
                THEN {loc}
                ELSE {} : i \in DOMAIN node.fields }

\* C23 (as claimed): the package content has an entry, an absolute path or
\* a URL, for every tagged file reference outside the open mapping nodes, the
\* elements of tagged sequences included, and for nothing else.
C23_EveryTaggedCollected ==
    Packaged =>
        LET c == applied[1]
        IN  /\ ContentLocs(c.out.package_content)
                   = TaggedFileLocs(c.rd.node, << >>)
            /\ \A i \in DOMAIN c.out.package_content :
                   c.out.package_content[i].src.root # "relative"
\* the formats of a priority order that the description has an entry for
PresentIn(order, rd) == { i \in DOMAIN order : order[i] \in rd.weights }

\* C24 (as claimed): prepare_to_package with a priority order on a model
\* description returns a description with exactly the entry of the first
\* listed format that is present, and raises ValueError when none is.
C24_FirstPresentWeightsKept ==
    (applied # None /\ applied[1].fn = "prepare_to_package"
     /\ ~IsNone(applied[1].weights_priority_order) /\ applied[1].rd.is_model) =>
        LET c == applied[1]
            order == c.weights_priority_order.items
            present == PresentIn(order, c.rd)
        IN  IF present = {}
            THEN c.out.exc = Some("ValueError")
            ELSE /\ c.out.exc = None
                 /\ c.out.rd.weights =
                        { order[CHOOSE i \in present : \A j \in present : i <= j] }
\* the tree in which the rule has rewritten every instance of its class that
\* is reachable through node fields, lists, tuples and dict values
RECURSIVE RewrittenEverywhere(_, _)
RewrittenEverywhere(node, rules) ==
    IF node.kind = "RawNode" /\ node.cls \in rules
    THEN [node EXCEPT !.rewritten = TRUE]
    ELSE [node EXCEPT !.items =
             [i \in DOMAIN node.items |->
                 RewrittenEverywhere(node.items[i], rules)]]

\* C25 (as claimed): a NodeTransformer applies its rule to every instance
\* of the rule's class reachable through node fields, lists, tuples and dict
\* values and rebuilds the other nodes; without rules the result equals the
\* input.
C25_RuleReachesEveryInstance ==
    (applied # None /\ applied[1].fn = "NodeTransformer.transform") =>
        /\ applied[1].out = RewrittenEverywhere(applied[1].node, applied[1].rules)
        /\ applied[1].rules = {} => applied[1].out = applied[1].node
\* C26 (as claimed): on a well-formed data version get_matching_io_class
\* returns the class of the data's revision wherever it is in the chain of
\* preceding classes, raises ValueError for data newer than the class and
\* NotImplementedError when no class of the chain has the revision; it
\* never returns a class of another revision.
C26_MatchingClassFound ==
    (applied # None /\ applied[1].fn = "get_matching_io_class"
     /\ applied[1].data_version.is_str /\ applied[1].data_version.valid) =>
        LET c == applied[1]
            rev == c.data_version.rev
        IN  IF rev > c.cls THEN c.out.exc = Some("ValueError")
            ELSE IF rev \notin IOClasses
            THEN c.out.exc = Some("NotImplementedError")
            ELSE c.out.exc = None /\ c.out.cls = Some(rev)
\* C27 (as claimed): maybe_convert of model.v0_4 on data that declares
\* 0.x with x < 4, or no format_version, returns data at 0.4.0 without the
\* legacy keys and without "source", whose value is kept as the architecture
\* of the pytorch_state_dict entry; data at 0.4 or above is returned with
\* only the empty config entries removed; the mapping of the caller is as it
\* was before the call.
C27_ConvertedWithoutLoss ==
    (converted # None /\ converted[1].step = "model.v0_4"
     /\ (converted[1].input.format_version = Missing
         \/ (converted[1].input.format_version.kind = "str"
             /\ Len(converted[1].input.format_version.parts) = 3))) =>
        LET c == converted[1]
            fv == GetFormatVersion(c.input, Str(<<0, 1, 0>>))
        IN  /\ c.output.exc = None
            /\ c.caller = c.input
            /\ IF TupleLess(MajorMinor(fv), <<0, 4>>)
               THEN /\ c.output.data.format_version = Str(<<0, 4, 0>>)
                    /\ ~c.output.data.legacy
                    /\ ~c.output.data.source
                    /\ c.input.source =>
                           c.output.data.pytorch = "entry+architecture"
               ELSE c.output.data = [c.input EXCEPT !.config = CleanConfig(@)]
\* C28 (as claimed): with a context whose root was not given, the root of
\* the document is the root of the resulting context and description; the
\* root of the context is used when it was given, and the current directory
\* when neither was.
C28_DocumentRootUsed ==
    (applied # None /\ applied[1].fn = "_get_context_and_update_data") =>
        LET c == applied[1]
            expected == IF c.context_root # CurrentDirectory THEN c.context_root
                        ELSE IF c.data_root # NoRoot THEN c.data_root
                        ELSE CurrentDirectory
        IN  /\ c.out.context_root = expected
            /\ c.has_root_field => c.out.data_root = expected

\* the list the claim describes, position by position from the i-th on
RECURSIVE UpdatedList(_, _, _)
UpdatedList(node, update, i) ==
    IF i > Len(node) /\ i > Len(update) THEN << >>
    ELSE LET here == IF i > Len(update) THEN << node[i] >>
                     ELSE IF update[i] = DROP THEN << >>
                     ELSE IF update[i] = KEEP
                     THEN IF i > Len(node) THEN << >> ELSE << node[i] >>
                     ELSE << update[i] >>
         IN  here \o UpdatedList(node, update, i + 1)

\* C29 (as claimed): a list update gives, position by position, the node's
\* element where the update is shorter or holds KEEP, the update where it
\* gives a value, nothing where it holds DROP; a kept element is never
\* removed, whatever its value; KEEP for the whole node returns the node.
C29_PositionWiseUpdate ==
    (applied # None /\ applied[1].fn = "NestedUpdateTransformer.transform") =>
        LET c == applied[1]
        IN  /\ c.update.is_list =>
                   c.out.items = UpdatedList(c.node, c.update.items, 1)
            /\ (~c.update.is_list /\ c.update.value = KEEP) =>
                   c.out.items = c.node
\* C30: load_description leaves the mapping of its caller as it was passed
\* in, at every step of the call, whether it returns or raises: the rewrite
\* of format_version and the rewrites of the migration are made on a copy.
C30_CallerMappingUnchanged ==
    raw # None => raw = call.data

\* C30 witness: a call returned after the migration rewrote the data in
\* place, on data whose format_version load_description itself did not
\* rewrite.
C30_Witness ==
    /\ pc = "returned"
    /\ checked.use_fv = checked.fv
    /\ work # None /\ work # call.data
    /\ raw = call.data
====
